---- MODULE Spec2Model ----
(***************************************************************************)
(* Verification model of check_hp_disk_firmware / check_hp_firmware:       *)
(*   - the OID helpers of package snmp (IsOid, IsOidPartOf, GetSubOid),    *)
(*   - the main() pipeline in its three revisions (drives only;            *)
(*     controllers + drives + iLO; controllers + drives),                  *)
(*   - the drive rule GetNagiosStatus and the nagios.Overall aggregator,   *)
(*     whose sources are not part of the tree and are modelled from the    *)
(*     specification and the unit test.                                    *)
(* Strings that the code indexes are sequences of one-character strings.   *)
(***************************************************************************)
EXTENDS Integers, Sequences, FiniteSets, TLC

VARIABLES
    \* --- snmp OID helpers -------------------------------------------------
    oid,          \* first argument (child)
    baseOid,      \* second argument (parent)
    called,       \* which helper was applied last ("none" before any call)
    retBool,      \* "true" / "false" / "panic" / "none"
    retStr,       \* string result of GetSubOid
    \* --- main() -----------------------------------------------------------
    variant,      \* which revision of main() runs
    ignoreIlo,    \* --ignore-ilo-version
    file,         \* --snmpwalk-file given
    protocol,     \* --protocol
    pc,           \* position inside main()
    cntlrLoaded, cntlrTable,
    driveLoaded, driveTable,
    controllers, drives,      \* extracted records
    cIdx, dIdx,               \* loop positions of the two range loops
    evaluated,                \* every GetNagiosStatus call made so far
    overall,                  \* nagios.Overall
    exitCode, exitOutput      \* what nagios.Exit / ExitError was given

oidVars  == <<oid, baseOid, called, retBool, retStr>>
flags    == <<variant, ignoreIlo, file, protocol>>
mainVars == <<flags, pc, cntlrLoaded, cntlrTable, driveLoaded,
              driveTable, controllers, drives, cIdx, dIdx, evaluated,
              exitCode, exitOutput>>
vars     == <<oidVars, mainVars, overall>>

----------------------------------------------------------------------------
(* Bounds *)
MaxOidLen  == 5      \* longest child string
MaxBaseLen == 4      \* longest parent string
MaxDrives  == 2      \* most rows in the drive table
MaxCntlrs  == 1      \* most rows in the controller table
MaxAdds    == 3      \* most Add calls in the free aggregator runs

Alphabet == {".", "1", "x"}
Digits   == {"0", "1", "2", "3", "4", "5", "6", "7", "8", "9"}

StringsUpTo(n) == UNION {[1..k -> Alphabet] : k \in 0..n}

----------------------------------------------------------------------------
(* package snmp *)

RECURSIVE IsOidLoop(_, _, _)
\* the for-range loop of IsOid and the final lastChar test
IsOidLoop(s, i, lastChar) ==
    IF i > Len(s) THEN lastChar # "."
    ELSE LET char == s[i] IN
         IF char = "."
         THEN IF lastChar = "." THEN FALSE ELSE IsOidLoop(s, i + 1, char)
         ELSE IF char \notin Digits THEN FALSE
         ELSE IsOidLoop(s, i + 1, char)

RECURSIVE IsOidLoopNoTrail(_, _, _)
\* IsOidLoop without the trailing-separator test
IsOidLoopNoTrail(s, i, lastChar) ==
    IF i > Len(s) THEN TRUE
    ELSE LET char == s[i] IN
         IF char = "."
         THEN IF lastChar = "." THEN FALSE ELSE IsOidLoopNoTrail(s, i + 1, char)
         ELSE IF char \notin Digits THEN FALSE
         ELSE IsOidLoopNoTrail(s, i + 1, char)

IsOidNoTrail(s) ==
    IF s = <<>> \/ s[1] # "." \/ Len(s) < 2 THEN FALSE
    ELSE IsOidLoopNoTrail(s, 2, s[1])

IsOid(s) ==
    IF s = <<>> \/ s[1] # "." \/ Len(s) < 2 THEN FALSE
    ELSE IsOidLoop(s, 2, s[1])

\* Go's s[lo:hi] panics unless 0 <= lo <= hi <= len(s)
SliceOK(s, lo, hi) == 0 <= lo /\ lo <= hi /\ hi <= Len(s)
Slice(s, lo, hi)   == SubSeq(s, lo + 1, hi)

IsOidPartOf(o, b) ==
    IF ~IsOid(o) \/ ~IsOid(b) THEN "false"
    ELSE LET lenBase == Len(b) IN
         IF ~SliceOK(o, 0, lenBase) THEN "panic"
         ELSE IF Slice(o, 0, lenBase) = b
              THEN IF Len(o) = lenBase THEN "true"
                   ELSE IF ~SliceOK(o, lenBase, lenBase + 1) THEN "panic"
                   ELSE IF Slice(o, lenBase, lenBase + 1) = <<".">> THEN "true"
                   ELSE "false"
              ELSE "false"

\* GetSubOid that keeps the separator (slices at l instead of l+1)
GetSubOidKeepSep(o, b) ==
    IF ~IsOid(o) \/ ~IsOid(b) THEN [panic |-> FALSE, str |-> <<>>]
    ELSE LET part == IsOidPartOf(o, b) IN
         IF part = "panic" THEN [panic |-> TRUE, str |-> <<>>]
         ELSE IF part = "false" THEN [panic |-> FALSE, str |-> <<>>]
         ELSE LET l == Len(b) IN
              IF ~SliceOK(o, l, Len(o)) THEN [panic |-> TRUE, str |-> <<>>]
              ELSE [panic |-> FALSE, str |-> Slice(o, l, Len(o))]

GetSubOid(o, b) ==
    IF ~IsOid(o) \/ ~IsOid(b) THEN [panic |-> FALSE, str |-> <<>>]
    ELSE LET part == IsOidPartOf(o, b) IN
         IF part = "panic" THEN [panic |-> TRUE, str |-> <<>>]
         ELSE IF part = "false" THEN [panic |-> FALSE, str |-> <<>>]
         ELSE LET l == Len(b) IN
              IF ~SliceOK(o, l + 1, Len(o)) THEN [panic |-> TRUE, str |-> <<>>]
              ELSE [panic |-> FALSE, str |-> Slice(o, l + 1, Len(o))]

Protocols == {"1", "2", "2c", "3", "x"}

\* SetVersion that forgets to return the error of the "3" case
SetVersionAllowV3(version) ==
    CASE version = "1"                 -> "nil"
      [] version \in {"2", "2c"}       -> "nil"
      [] version = "3"                 -> "nil"
      [] OTHER                         -> "unknown SNMP version"

\* snmp.SetVersion(client, version): the error it returns ("nil" for none)
SetVersion(version) ==
    CASE version = "1"                 -> "nil"
      [] version \in {"2", "2c"}       -> "nil"
      [] version = "3"                 -> "SNMPv3 config not implemented"
      [] OTHER                         -> "unknown SNMP version"

\* snmp.VersionFromString(version), the later form of SetVersion
VersionFromString(version) == SetVersion(version)

----------------------------------------------------------------------------
(* package nagios (not part of the tree: modelled from the specification)  *)

OK       == 0
Warning  == 1
Critical == 2
Unknown  == 3
Severities == {OK, Warning, Critical, Unknown}

\* nagios.Overall{}
EmptyOverall ==
    [OKs |-> 0, Warnings |-> 0, Criticals |-> 0, Unknowns |-> 0,
     Summary |-> <<>>, Outputs |-> <<>>]

\* Add that counts every non-OK state as a warning
AddMiscount(o, state, output) ==
    [o EXCEPT !.OKs       = IF state = OK THEN @ + 1 ELSE @,
              !.Warnings  = IF state # OK THEN @ + 1 ELSE @,
              !.Outputs   = Append(@, output)]

\* Overall.Add(state, output)
Add(o, state, output) ==
    [o EXCEPT !.OKs       = IF state = OK       THEN @ + 1 ELSE @,
              !.Warnings  = IF state = Warning  THEN @ + 1 ELSE @,
              !.Criticals = IF state = Critical THEN @ + 1 ELSE @,
              !.Unknowns  = IF state = Unknown  THEN @ + 1 ELSE @,
              !.Outputs   = Append(@, output)]

\* Overall.GetStatus()
GetStatus(o) ==
    IF o.Criticals > 0 THEN Critical
    ELSE IF o.Warnings > 0 THEN Warning
    ELSE IF o.OKs + o.Unknowns > 0 THEN OK
    ELSE Unknown

\* Overall.GetOutput(): the summary line, then the messages in Add order
GetOutput(o) == <<o.Summary>> \o o.Outputs

\* nagios.ExitError(err): an UNKNOWN-class terminal failure
ErrorOutput == << <<"error">> >>

----------------------------------------------------------------------------
(* package phy_drv / cntlr / ilo (rules modelled from the specification,   *)
(* the unit test and the Readme)                                           *)

affectedDrive      == "VO0480JFDGT"
affectedDriveFixed == "HPD8"

Models   == {affectedDrive, "OTHERDRIVE"}
FwRevs   == {"HPD1", "HPD8", "HPD9"}
Statuses == {"ok", "failed"}

\* the affected-model list: model -> first fixed firmware revision
AffectedModels == [m \in {affectedDrive} |-> affectedDriveFixed]

\* revision number carried by a firmware string
FwRank(fw) == CASE fw = "HPD1" -> 1 [] fw = "HPD8" -> 8 [] fw = "HPD9" -> 9

IsFirmwareFixed(model, fw) == FwRank(fw) >= FwRank(AffectedModels[model])

Description(d) ==
    <<"physical drive (", d.Id, ") model=", d.Model, " serial=", d.Serial,
      " firmware=", d.FwRev, " hours=", ToString(d.Hours)>>

\* GetNagiosStatus with the model rule tried before the device status
GetNagiosStatusModelFirst(d) ==
    IF d.Model \in DOMAIN AffectedModels
    THEN IF ~IsFirmwareFixed(d.Model, d.FwRev)
         THEN [status |-> Critical,
               info |-> Description(d) \o <<" - affected by FW bug">>]
         ELSE [status |-> OK,
               info |-> Description(d) \o <<" - firmware update applied">>]
    ELSE IF d.Status # "ok"
    THEN [status |-> Critical,
          info |-> Description(d) \o <<" - status: ", d.Status>>]
    ELSE [status |-> OK, info |-> Description(d)]

\* GetNagiosStatus that lets the model alone decide
GetNagiosStatusModelOnly(d) ==
    IF d.Status # "ok"
    THEN [status |-> Critical,
          info |-> Description(d) \o <<" - status: ", d.Status>>]
    ELSE IF d.Model \in DOMAIN AffectedModels
    THEN [status |-> Critical,
          info |-> Description(d) \o <<" - affected by FW bug">>]
    ELSE [status |-> OK, info |-> Description(d)]

\* PhysicalDrive.GetNagiosStatus()
GetNagiosStatus(d) ==
    IF d.Status # "ok"
    THEN [status |-> Critical,
          info |-> Description(d) \o <<" - status: ", d.Status>>]
    ELSE IF d.Model \in DOMAIN AffectedModels
    THEN IF ~IsFirmwareFixed(d.Model, d.FwRev)
         THEN [status |-> Critical,
               info |-> Description(d) \o <<" - affected by FW bug">>]
         ELSE [status |-> OK,
               info |-> Description(d) \o <<" - firmware update applied">>]
    ELSE [status |-> OK, info |-> Description(d)]

\* a drive-table row and a controller-table row
DriveRows == [Model : Models, FwRev : FwRevs, Status : Statuses]
CntlrRows == [Result : {OK, Warning, Critical}]

TablesUpTo(Rows, n) == UNION {[1..k -> Rows] : k \in 0..n}

\* phy_drv.GetPhysicalDrivesFromTable: one record per row, in table order
GetPhysicalDrivesFromTable(t) ==
    [i \in 1..Len(t) |->
        [Id |-> ToString(i), Model |-> t[i].Model, FwRev |-> t[i].FwRev,
         Serial |-> "ABC123", Status |-> t[i].Status, Hours |-> 1337]]

\* cntlr.GetControllersFromTable: one record per row, in table order
GetControllersFromTable(t) ==
    [i \in 1..Len(t) |-> [Id |-> ToString(i), Result |-> t[i].Result]]

\* an extractor reports an error only for a structurally empty table
ExtractError(t) == Len(t) = 0

\* Controller.GetNagiosStatus(): the row carries what its rules yield
ControllerGetNagiosStatus(c) ==
    [status |-> c.Result, info |-> <<"controller (", c.Id, ")">>]

\* Ilo.GetNagiosStatus(): the minimum-version floor yields OK or CRITICAL
IloGetNagiosStatus(result) ==
    [status |-> result, info |-> <<"Integrated Lights-Out">>]

----------------------------------------------------------------------------
(* main() *)

Variants == {"disk", "ilo", "fw"}   \* main.go, part_002:72, part_002:302

\* nagios.Exit(code, output) / nagios.ExitError(err): the process ends
Exit(code, output) ==
    /\ pc' = "exit"
    /\ exitCode' = code
    /\ exitOutput' = output

\* where main() continues once both record lists exist
AfterExtract ==
    IF variant = "ilo" /\ ~ignoreIlo THEN "ilo"
    ELSE IF variant = "disk" THEN "driveLoop"
    ELSE "cntlrLoop"

\* the branch on *file: open the capture, or configure the client
\* (SetVersion / VersionFromString) and connect; every error is ExitError
SetupClient ==
    /\ pc = "setup"
    /\ LET err == IF file THEN "nil"
                  ELSE IF variant = "disk" THEN SetVersion(protocol)
                  ELSE VersionFromString(protocol) IN
       IF err # "nil"
       THEN Exit(Unknown, ErrorOutput)
       ELSE \/ Exit(Unknown, ErrorOutput)      \* os.Open / Connect failed
            \/ /\ pc' = IF variant = "disk" THEN "loadDrive" ELSE "loadCntlr"
               /\ UNCHANGED <<exitCode, exitOutput>>
    /\ UNCHANGED <<oidVars, flags, cntlrLoaded, cntlrTable, driveLoaded,
                   driveTable, controllers, drives, cIdx, dIdx, evaluated,
                   overall>>

\* cntlrTable, err = cntlr.GetCpqDaCntlrTable(client) / LoadCpqDaCntlrTable(fh)
GetCpqDaCntlrTable ==
    /\ pc = "loadCntlr"
    /\ \/ /\ Exit(Unknown, ErrorOutput)
          /\ UNCHANGED <<cntlrLoaded, cntlrTable>>
       \/ /\ \E t \in TablesUpTo(CntlrRows, MaxCntlrs) : cntlrTable' = t
          /\ cntlrLoaded' = TRUE
          /\ pc' = "loadDrive"
          /\ UNCHANGED <<exitCode, exitOutput>>
    /\ UNCHANGED <<oidVars, flags, driveLoaded, driveTable,
                   controllers, drives, cIdx, dIdx, evaluated, overall>>

\* driveTable, err = phy_drv.GetCpqDaPhyDrvTable(client) / LoadCpqDaPhyDrvTable(fh)
GetCpqDaPhyDrvTable ==
    /\ pc = "loadDrive"
    /\ \/ /\ Exit(Unknown, ErrorOutput)
          /\ UNCHANGED <<driveLoaded, driveTable>>
       \/ /\ \E t \in TablesUpTo(DriveRows, MaxDrives) : driveTable' = t
          /\ driveLoaded' = TRUE
          /\ pc' = IF variant = "disk" THEN "chkDrive" ELSE "chkCntlr"
          /\ UNCHANGED <<exitCode, exitOutput>>
    /\ UNCHANGED <<oidVars, flags, cntlrLoaded, cntlrTable,
                   controllers, drives, cIdx, dIdx, evaluated, overall>>

\* CheckCntlrTable that lets an empty controller table through
CheckCntlrTableNoExit ==
    /\ pc = "chkCntlr"
    /\ pc' = IF Len(cntlrTable) = 0 THEN "chkDrive" ELSE "getCntlrs"
    /\ UNCHANGED <<exitCode, exitOutput>>
    /\ UNCHANGED <<oidVars, flags, cntlrLoaded, cntlrTable,
                   driveLoaded, driveTable, controllers, drives, cIdx, dIdx,
                   evaluated, overall>>

\* if len(cntlrTable.Snmp.Values) == 0 { nagios.Exit(3, ...) }
CheckCntlrTable ==
    /\ pc = "chkCntlr"
    /\ IF Len(cntlrTable) = 0
       THEN Exit(3, << <<"No HP controller data found!">> >>)
       ELSE /\ pc' = "getCntlrs"
            /\ UNCHANGED <<exitCode, exitOutput>>
    /\ UNCHANGED <<oidVars, flags, cntlrLoaded, cntlrTable,
                   driveLoaded, driveTable, controllers, drives, cIdx, dIdx,
                   evaluated, overall>>

\* ExtractControllers that goes on to evaluate the controllers at once
ExtractControllersEager ==
    /\ pc = "getCntlrs"
    /\ IF ExtractError(cntlrTable)
       THEN /\ Exit(Unknown, ErrorOutput)
            /\ UNCHANGED controllers
       ELSE /\ controllers' = GetControllersFromTable(cntlrTable)
            /\ pc' = "cntlrLoop"
            /\ UNCHANGED <<exitCode, exitOutput>>
    /\ UNCHANGED <<oidVars, flags, cntlrLoaded, cntlrTable,
                   driveLoaded, driveTable, drives, cIdx, dIdx, evaluated,
                   overall>>

\* controllers, err := cntlr.GetControllersFromTable(cntlrTable)
ExtractControllers ==
    /\ pc = "getCntlrs"
    /\ IF ExtractError(cntlrTable)
       THEN /\ Exit(Unknown, ErrorOutput)
            /\ UNCHANGED controllers
       ELSE /\ controllers' = GetControllersFromTable(cntlrTable)
            /\ pc' = "chkDrive"
            /\ UNCHANGED <<exitCode, exitOutput>>
    /\ UNCHANGED <<oidVars, flags, cntlrLoaded, cntlrTable,
                   driveLoaded, driveTable, drives, cIdx, dIdx, evaluated,
                   overall>>

\* CheckDriveTable that lets an empty drive table through
CheckDriveTableNoExit ==
    /\ pc = "chkDrive"
    /\ pc' = IF Len(driveTable) = 0
             THEN (IF variant = "disk" THEN "finish" ELSE AfterExtract)
             ELSE "getDrives"
    /\ UNCHANGED <<exitCode, exitOutput>>
    /\ UNCHANGED <<oidVars, flags, cntlrLoaded, cntlrTable,
                   driveLoaded, driveTable, controllers, drives, cIdx, dIdx,
                   evaluated, overall>>

\* if len(driveTable.Snmp.Values) == 0 / len(ids) == 0 { nagios.Exit(3, ...) }
CheckDriveTable ==
    /\ pc = "chkDrive"
    /\ IF Len(driveTable) = 0
       THEN Exit(3, << <<"No HP drive data found!">> >>)
       ELSE /\ pc' = "getDrives"
            /\ UNCHANGED <<exitCode, exitOutput>>
    /\ UNCHANGED <<oidVars, flags, cntlrLoaded, cntlrTable,
                   driveLoaded, driveTable, controllers, drives, cIdx, dIdx,
                   evaluated, overall>>

\* drives, err := phy_drv.GetPhysicalDrivesFromTable(driveTable);
\* overall := nagios.Overall{}
ExtractDrives ==
    /\ pc = "getDrives"
    /\ IF ExtractError(driveTable)
       THEN /\ Exit(Unknown, ErrorOutput)
            /\ UNCHANGED <<drives, overall>>
       ELSE /\ drives' = GetPhysicalDrivesFromTable(driveTable)
            /\ overall' = EmptyOverall
            /\ pc' = AfterExtract
            /\ UNCHANGED <<exitCode, exitOutput>>
    /\ UNCHANGED <<oidVars, flags, cntlrLoaded, cntlrTable,
                   driveLoaded, driveTable, controllers, cIdx, dIdx,
                   evaluated>>

\* if !*ignoreIlo { iloData, err := ilo.GetIloInformation(client); ... Add }
CheckIlo ==
    /\ pc = "ilo"
    /\ \/ /\ Exit(Unknown, ErrorOutput)
          /\ UNCHANGED <<evaluated, overall>>
       \/ \E result \in {OK, Critical} :
            LET r == IloGetNagiosStatus(result) IN
            /\ evaluated' = Append(evaluated,
                                   [class |-> "ilo", idx |-> 0,
                                    status |-> r.status, info |-> r.info])
            /\ overall' = Add(overall, r.status, r.info)
            /\ pc' = "cntlrLoop"
            /\ UNCHANGED <<exitCode, exitOutput>>
    /\ UNCHANGED <<oidVars, flags, cntlrLoaded, cntlrTable,
                   driveLoaded, driveTable, controllers, drives, cIdx, dIdx>>

\* one iteration of: for _, controller := range controllers { ... }
EvalController ==
    /\ pc = "cntlrLoop"
    /\ IF cIdx <= Len(controllers)
       THEN LET r == ControllerGetNagiosStatus(controllers[cIdx]) IN
            /\ evaluated' = Append(evaluated,
                                   [class |-> "cntlr", idx |-> cIdx,
                                    status |-> r.status, info |-> r.info])
            /\ overall' = Add(overall, r.status, r.info)
            /\ cIdx' = cIdx + 1
            /\ pc' = IF cIdx + 1 > Len(controllers) THEN "driveLoop"
                     ELSE "cntlrLoop"
       ELSE /\ pc' = "driveLoop"
            /\ UNCHANGED <<evaluated, overall, cIdx>>
    /\ UNCHANGED <<oidVars, flags, cntlrLoaded, cntlrTable,
                   driveLoaded, driveTable, controllers, drives, dIdx,
                   exitCode, exitOutput>>

\* EvalDrive that reports only the drives that have a problem
EvalDriveProblemsOnly ==
    /\ pc = "driveLoop"
    /\ IF dIdx <= Len(drives)
       THEN LET r == GetNagiosStatus(drives[dIdx]) IN
            /\ evaluated' = Append(evaluated,
                                   [class |-> "drive", idx |-> dIdx,
                                    status |-> r.status, info |-> r.info])
            /\ overall' = IF r.status = OK THEN overall
                          ELSE Add(overall, r.status, r.info)
            /\ dIdx' = dIdx + 1
            /\ pc' = IF dIdx + 1 > Len(drives) THEN "finish" ELSE "driveLoop"
       ELSE /\ pc' = "finish"
            /\ UNCHANGED <<evaluated, overall, dIdx>>
    /\ UNCHANGED <<oidVars, flags, cntlrLoaded, cntlrTable,
                   driveLoaded, driveTable, controllers, drives, cIdx,
                   exitCode, exitOutput>>

\* one iteration of: for _, drive := range drives { ... }
EvalDrive ==
    /\ pc = "driveLoop"
    /\ IF dIdx <= Len(drives)
       THEN LET r == GetNagiosStatus(drives[dIdx]) IN
            /\ evaluated' = Append(evaluated,
                                   [class |-> "drive", idx |-> dIdx,
                                    status |-> r.status, info |-> r.info])
            /\ overall' = Add(overall, r.status, r.info)
            /\ dIdx' = dIdx + 1
            /\ pc' = IF dIdx + 1 > Len(drives) THEN "finish" ELSE "driveLoop"
       ELSE /\ pc' = "finish"
            /\ UNCHANGED <<evaluated, overall, dIdx>>
    /\ UNCHANGED <<oidVars, flags, cntlrLoaded, cntlrTable,
                   driveLoaded, driveTable, controllers, drives, cIdx,
                   exitCode, exitOutput>>

\* the summary line main() builds from the overall status
Summary(status) ==
    IF variant = "disk"
    THEN CASE status = OK       -> <<"All drives seem fine">>
           [] status = Warning  -> <<"Found warnings for drives">>
           [] status = Critical -> <<"Found critical problems on drives">>
           [] OTHER             -> <<>>
    ELSE CASE status = OK ->
                <<"All ", ToString(cIdx - 1), " controllers and ",
                  ToString(dIdx - 1), " drives seem fine">>
           [] status = Warning ->
                <<"Found ", ToString(overall.Warnings), " warnings">>
           [] status = Critical ->
                <<"Found ", ToString(overall.Criticals), " critical problems">>
           [] OTHER -> <<>>

\* status := overall.GetStatus(); overall.Summary = summary;
\* nagios.Exit(status, overall.GetOutput())
Finish ==
    /\ pc = "finish"
    /\ LET status == GetStatus(overall) IN
       /\ overall' = [overall EXCEPT !.Summary = Summary(status)]
       /\ Exit(status, GetOutput(overall'))
    /\ UNCHANGED <<oidVars, flags, cntlrLoaded, cntlrTable,
                   driveLoaded, driveTable, controllers, drives, cIdx, dIdx,
                   evaluated>>

OidIdle ==
    /\ oid = <<>> /\ baseOid = <<>>
    /\ called = "none" /\ retBool = "none" /\ retStr = <<>>

MainIdle(p) ==
    /\ pc = p
    /\ cntlrLoaded = FALSE /\ cntlrTable = <<>>
    /\ driveLoaded = FALSE /\ driveTable = <<>>
    /\ controllers = <<>> /\ drives = <<>>
    /\ cIdx = 1 /\ dIdx = 1
    /\ evaluated = <<>>
    /\ exitCode = 0 /\ exitOutput = <<>>

Init ==
    /\ OidIdle
    /\ variant \in Variants
    /\ ignoreIlo \in (IF variant = "ilo" THEN BOOLEAN ELSE {FALSE})
    /\ file \in BOOLEAN
    /\ protocol = "2c"                      \* the default of --protocol
    /\ MainIdle("setup")
    /\ overall = EmptyOverall

Next ==
    \/ SetupClient
    \/ GetCpqDaCntlrTable
    \/ GetCpqDaPhyDrvTable
    \/ CheckCntlrTable
    \/ ExtractControllers
    \/ CheckDriveTable
    \/ ExtractDrives
    \/ CheckIlo
    \/ EvalController
    \/ EvalDrive
    \/ Finish

Spec == Init /\ [][Next]_vars

\* the same program started with every value of --protocol
InitFlags ==
    /\ OidIdle
    /\ variant \in Variants
    /\ ignoreIlo \in (IF variant = "ilo" THEN BOOLEAN ELSE {FALSE})
    /\ file \in BOOLEAN
    /\ protocol \in Protocols
    /\ MainIdle("setup")
    /\ overall = EmptyOverall

SpecFlags == InitFlags /\ [][Next]_vars

----------------------------------------------------------------------------
(* The OID helpers applied to every pair of bounded strings *)

NoMain(p) ==
    /\ variant = "none" /\ ignoreIlo = FALSE
    /\ file = FALSE /\ protocol = "2c"
    /\ MainIdle(p)
    /\ overall = EmptyOverall

InitOid ==
    /\ oid \in StringsUpTo(MaxOidLen)
    /\ baseOid \in StringsUpTo(MaxBaseLen)
    /\ called = "none" /\ retBool = "none" /\ retStr = <<>>
    /\ NoMain("oid")

CallIsOid ==
    /\ called' = "IsOid"
    /\ retBool' = IF IsOid(oid) THEN "true" ELSE "false"
    /\ retStr' = <<>>
    /\ UNCHANGED <<oid, baseOid, mainVars, overall>>

CallIsOidPartOf ==
    /\ called' = "IsOidPartOf"
    /\ retBool' = IsOidPartOf(oid, baseOid)
    /\ retStr' = <<>>
    /\ UNCHANGED <<oid, baseOid, mainVars, overall>>

CallGetSubOid ==
    /\ called' = "GetSubOid"
    /\ LET r == GetSubOid(oid, baseOid) IN
       /\ retBool' = IF r.panic THEN "panic" ELSE "none"
       /\ retStr' = r.str
    /\ UNCHANGED <<oid, baseOid, mainVars, overall>>

NextOid == CallIsOid \/ CallIsOidPartOf \/ CallGetSubOid

SpecOid == InitOid /\ [][NextOid]_vars

----------------------------------------------------------------------------
(* A fresh nagios.Overall fed every bounded sequence of Add calls *)

AggOutputs == {<<"a">>, <<"b">>}

InitAgg == OidIdle /\ NoMain("agg")

AggAdd ==
    /\ pc = "agg"
    /\ Len(evaluated) < MaxAdds
    /\ \E state \in Severities, output \in AggOutputs :
         /\ overall' = Add(overall, state, output)
         /\ evaluated' = Append(evaluated,
                                [class |-> "agg", idx |-> 0,
                                 status |-> state, info |-> output])
    /\ UNCHANGED <<oidVars, flags, pc, cntlrLoaded, cntlrTable,
                   driveLoaded, driveTable, controllers, drives, cIdx, dIdx,
                   exitCode, exitOutput>>

AggGetStatus ==
    /\ pc = "agg"
    /\ Exit(GetStatus(overall), GetOutput(overall))
    /\ UNCHANGED <<oidVars, flags, cntlrLoaded, cntlrTable,
                   driveLoaded, driveTable, controllers, drives, cIdx, dIdx,
                   evaluated, overall>>

NextAgg == AggAdd \/ AggGetStatus

SpecAgg == InitAgg /\ [][NextAgg]_vars

----------------------------------------------------------------------------
(* Properties of the OID helpers (checked under SpecOid) *)

\* the Path invariant, stated declaratively
IsPathSpec(s) ==
    /\ Len(s) >= 2
    /\ s[1] = "."
    /\ s[Len(s)] # "."
    /\ \A i \in 1..(Len(s) - 1) : ~(s[i] = "." /\ s[i + 1] = ".")
    /\ \A i \in 1..Len(s) : s[i] # "." => s[i] \in Digits

\* child equals parent, or begins with parent followed by a separator
IsSubPathSpec(c, p) ==
    /\ IsPathSpec(c) /\ IsPathSpec(p)
    /\ \/ c = p
       \/ /\ Len(c) > Len(p)
          /\ SubSeq(c, 1, Len(p) + 1) = p \o <<".">>

StrictSubPathSpec(c, p) == IsSubPathSpec(c, p) /\ c # p

\* C1: IsOidPartOf returns a boolean for every pair of strings, and returns
\* true exactly when both are paths and child equals parent or extends it at
\* a label boundary (also when child is shorter than parent).
C1_IsSubPathTotal ==
    called = "IsOidPartOf" =>
        /\ retBool \in {"true", "false"}
        /\ (retBool = "true") <=> IsSubPathSpec(oid, baseOid)

\* C2: GetSubOid returns the empty string, without failing, whenever child is
\* not a strict sub-path of parent (invalid argument, not a sub-path, or
\* child equal to parent).
C2_SuffixEmptyOtherwise ==
    (called = "GetSubOid" /\ ~StrictSubPathSpec(oid, baseOid)) =>
        (retBool # "panic" /\ retStr = <<>>)

\* C3: IsOid accepts exactly the strings that satisfy the Path invariant:
\* at least two characters, leading separator, no trailing separator, no
\* empty label, digits only.
C3_IsOidIffPath ==
    called = "IsOid" => ((retBool = "true") <=> IsPathSpec(oid))

C3_Witness ==
    /\ called = "IsOid"
    /\ oid = <<".", "1", ".", "1">>
    /\ retBool = "true"

\* C4: for a strict sub-path, GetSubOid returns the non-empty suffix s with
\* parent + "." + s = child.
C4_SuffixRebuildsChild ==
    (called = "GetSubOid" /\ StrictSubPathSpec(oid, baseOid)) =>
        /\ retBool # "panic"
        /\ retStr # <<>>
        /\ baseOid \o <<".">> \o retStr = oid

C4_Witness ==
    /\ called = "GetSubOid"
    /\ oid = <<".", "1", ".", "1", "1">>
    /\ baseOid = <<".", "1">>
    /\ retStr = <<"1", "1">>

----------------------------------------------------------------------------
(* Properties of the drive rule (checked under Spec) *)

DriveEvals == {i \in DOMAIN evaluated : evaluated[i].class = "drive"}
DriveOf(i) == drives[evaluated[i].idx]
Last(s)    == s[Len(s)]
EndsWith(s, t) ==
    Len(s) >= Len(t) /\ SubSeq(s, Len(s) - Len(t) + 1, Len(s)) = t

\* the neutral message: id, model, serial, firmware and hours echoed
NeutralInfo(d) ==
    <<"physical drive (", d.Id, ") model=", d.Model, " serial=", d.Serial,
      " firmware=", d.FwRev, " hours=", "1337">>

BelowFix(d) ==
    d.Model \in DOMAIN AffectedModels
    /\ FwRank(d.FwRev) < FwRank(AffectedModels[d.Model])

\* C5: a drive whose device-reported status is not "ok" is CRITICAL with a
\* message ending in "status: <status>", whatever its model and firmware.
C5_FailedStatusIsCritical ==
    \A i \in DriveEvals :
        DriveOf(i).Status # "ok" =>
            /\ evaluated[i].status = Critical
            /\ EndsWith(evaluated[i].info, <<" - status: ", DriveOf(i).Status>>)

C5_Witness ==
    \E i \in DriveEvals :
        /\ DriveOf(i).Status = "failed"
        /\ DriveOf(i).Model = affectedDrive
        /\ DriveOf(i).FwRev = affectedDriveFixed
        /\ evaluated[i].status = Critical

\* C6: for a drive with status "ok", CRITICAL ("affected") iff the model is
\* in the affected list and the firmware is below the fix version; affected
\* and fixed gives OK ("applied"); any other model gives OK with the neutral
\* message.
C6_ModelAndFirmwareDecide ==
    \A i \in DriveEvals :
        DriveOf(i).Status = "ok" =>
            LET d == DriveOf(i)
                e == evaluated[i] IN
            /\ (e.status = Critical) <=> BelowFix(d)
            /\ e.status \in {OK, Critical}
            /\ BelowFix(d) => Last(e.info) = " - affected by FW bug"
            /\ (d.Model \in DOMAIN AffectedModels /\ ~BelowFix(d)) =>
                   Last(e.info) = " - firmware update applied"
            /\ d.Model \notin DOMAIN AffectedModels => e.info = NeutralInfo(d)

C6_Witness ==
    \E i, j \in DriveEvals :
        /\ DriveOf(i).Status = "ok" /\ DriveOf(j).Status = "ok"
        /\ DriveOf(i).Model = affectedDrive /\ DriveOf(j).Model = affectedDrive
        /\ DriveOf(i).FwRev = "HPD1" /\ evaluated[i].status = Critical
        /\ DriveOf(j).FwRev = affectedDriveFixed /\ evaluated[j].status = OK

----------------------------------------------------------------------------
(* Properties of the aggregator (C7 under SpecAgg, C10 under Spec) *)

Added == {evaluated[i].status : i \in DOMAIN evaluated}

\* C7: GetStatus is CRITICAL if a CRITICAL was added, else WARNING if a
\* WARNING was added, else OK if anything was added, else UNKNOWN; it
\* depends only on which severities were added, not on their order.
C7_OverallSeverity ==
    pc = "exit" =>
        exitCode = IF Critical \in Added THEN Critical
                   ELSE IF Warning \in Added THEN Warning
                   ELSE IF evaluated # <<>> THEN OK
                   ELSE Unknown

C7_Witness ==
    /\ pc = "exit"
    /\ Len(evaluated) = 3
    /\ evaluated[1].status = Warning
    /\ evaluated[2].status = Critical
    /\ evaluated[3].status = OK
    /\ exitCode = Critical

ClassRank(c) == CASE c = "ilo" -> 0 [] c = "cntlr" -> 1 [] c = "drive" -> 2

FinishedNormally == pc = "exit" /\ overall.Summary # <<>>

\* C10: the rendered output is the summary line followed by exactly the
\* added messages, one per Add call in call order: the iLO message (if
\* checked), then the controllers in table order, then the drives in table
\* order.
C10_OutputInAddOrder ==
    /\ overall.Outputs = [i \in DOMAIN evaluated |-> evaluated[i].info]
    /\ \A i, j \in DOMAIN evaluated :
          i < j =>
             /\ ClassRank(evaluated[i].class) <= ClassRank(evaluated[j].class)
             /\ evaluated[i].class = evaluated[j].class =>
                    evaluated[i].idx < evaluated[j].idx
    /\ FinishedNormally =>
          /\ exitOutput = <<overall.Summary>> \o overall.Outputs
          /\ Len(overall.Outputs) =
                (IF variant = "ilo" /\ ~ignoreIlo THEN 1 ELSE 0)
                + Len(cntlrTable) + Len(driveTable)
          /\ \A i \in DOMAIN evaluated :
                /\ evaluated[i].class = "drive" =>
                      exitOutput[i + 1] = GetNagiosStatus(DriveOf(i)).info
                /\ evaluated[i].class = "cntlr" =>
                      exitOutput[i + 1] =
                         <<"controller (", ToString(evaluated[i].idx), ")">>

C10_Witness ==
    /\ FinishedNormally
    /\ variant = "ilo" /\ ~ignoreIlo
    /\ Len(exitOutput) = 5
    /\ evaluated[1].class = "ilo"
    /\ evaluated[2].class = "cntlr"
    /\ evaluated[3].class = "drive" /\ evaluated[3].status = OK
    /\ evaluated[4].class = "drive" /\ evaluated[4].status = Critical

----------------------------------------------------------------------------
(* Properties of the empty-table handling in main() (checked under Spec) *)

NoCntlrData == << <<"No HP controller data found!">> >>
NoDriveData == << <<"No HP drive data found!">> >>

CntlrEmpty == cntlrLoaded /\ cntlrTable = <<>>
DriveEmpty == driveLoaded /\ driveTable = <<>>
EmptyMandatoryTable == CntlrEmpty \/ DriveEmpty

NothingEvaluated == evaluated = <<>> /\ overall.Outputs = <<>>

\* C8 as stated: with an empty mandatory table the run ends with exit
\* status 3 and a "No HP ... data found!" message, before any
\* GetNagiosStatus call and before any Add.
C8_EmptyTableNoDataFound ==
    EmptyMandatoryTable =>
        /\ NothingEvaluated
        /\ pc = "exit" => (exitCode = 3 /\ exitOutput \in {NoCntlrData, NoDriveData})

\* C8 (amended): with an empty mandatory table the run never reaches an
\* evaluation or an Add and ends with exit status 3; the outcome is the
\* "No HP ... data found!" of the first empty table that is tested, unless
\* the controller table is empty and retrieving the drive table failed, in
\* which case it is that retrieval error.
C8_EmptyTableEndsUnknown ==
    EmptyMandatoryTable =>
        /\ NothingEvaluated
        /\ pc \in {"loadDrive", "chkCntlr", "getCntlrs", "chkDrive", "exit"}
        /\ pc = "exit" =>
              /\ exitCode = 3
              /\ exitOutput = IF ~driveLoaded THEN ErrorOutput
                              ELSE IF CntlrEmpty THEN NoCntlrData
                              ELSE NoDriveData

C8_Witness ==
    /\ pc = "exit"
    /\ DriveEmpty /\ cntlrLoaded /\ cntlrTable # <<>>
    /\ controllers # <<>>
    /\ exitCode = 3 /\ exitOutput = NoDriveData

BothLoaded == variant # "disk" /\ cntlrLoaded /\ driveLoaded

EvaluatedAll(class, n) ==
    \A k \in 1..n :
        \E i \in DOMAIN evaluated :
            /\ evaluated[i].class = class /\ evaluated[i].idx = k
            /\ \E j \in DOMAIN overall.Outputs :
                  overall.Outputs[j] = evaluated[i].info

\* C9 as stated: when exactly one of the two tables is empty, the records of
\* the other device class are still extracted, evaluated and added.
C9_OtherClassStillEvaluated ==
    (pc = "exit" /\ BothLoaded) =>
        /\ (cntlrTable = <<>> /\ driveTable # <<>>) =>
              (Len(drives) = Len(driveTable)
               /\ EvaluatedAll("drive", Len(driveTable)))
        /\ (driveTable = <<>> /\ cntlrTable # <<>>) =>
              (Len(controllers) = Len(cntlrTable)
               /\ EvaluatedAll("cntlr", Len(cntlrTable)))

\* C9 (amended): when exactly one of the two tables is empty the whole run
\* ends with exit status 3: no record of the other device class is evaluated
\* or added; the controllers are extracted only when it is the drive table
\* that is empty, and the drives are never extracted.
C9_EmptyTableEndsWholeRun ==
    (pc = "exit" /\ BothLoaded) =>
        /\ (cntlrTable = <<>> /\ driveTable # <<>>) =>
              /\ exitCode = 3
              /\ controllers = <<>> /\ drives = <<>>
              /\ \A i \in DOMAIN evaluated : evaluated[i].class # "drive"
              /\ overall.Outputs = <<>>
        /\ (driveTable = <<>> /\ cntlrTable # <<>>) =>
              /\ exitCode = 3
              /\ Len(controllers) = Len(cntlrTable) /\ drives = <<>>
              /\ \A i \in DOMAIN evaluated : evaluated[i].class # "cntlr"
              /\ overall.Outputs = <<>>

C9_Witness ==
    /\ pc = "exit" /\ BothLoaded
    /\ cntlrTable = <<>> /\ driveTable # <<>>
    /\ exitOutput = NoCntlrData
    /\ evaluated = <<>>

----------------------------------------------------------------------------
(* Properties of the protocol selector (checked under SpecFlags) *)

Supported   == {"1", "2", "2c"}
DataTouched == cntlrLoaded \/ driveLoaded \/ evaluated # <<>>

\* C11 as stated: an unsupported protocol selector ends the run with an
\* error before any device data is retrieved or read, with a live device
\* and with a capture file alike.
C11_UnsupportedAlwaysFatal ==
    protocol \notin Supported =>
        /\ ~DataTouched
        /\ pc \in {"setup", "exit"}
        /\ pc = "exit" => (exitCode = Unknown /\ exitOutput = ErrorOutput)

\* C11 (amended): with a live device an unsupported protocol selector ends
\* the run with an error before any device data is retrieved; with a
\* capture file the selector is not examined.
C11_UnsupportedFatalWhenLive ==
    (protocol \notin Supported /\ ~file) =>
        /\ ~DataTouched
        /\ pc \in {"setup", "exit"}
        /\ pc = "exit" => (exitCode = Unknown /\ exitOutput = ErrorOutput)

C11_Witness ==
    /\ protocol = "3" /\ ~file
    /\ pc = "exit"
    /\ exitCode = Unknown /\ exitOutput = ErrorOutput
    /\ ~DataTouched

----------------------------------------------------------------------------
(* Properties of the phase order of main() (checked under Spec) *)

RetrievalPcs  == {"loadCntlr", "loadDrive", "ilo"}   \* samples are fetched
ExtractionPcs == {"getCntlrs", "getDrives"}
EvaluationPcs == {"ilo", "cntlrLoop", "driveLoop"}

AnyTableBuilt  == cntlrLoaded \/ driveLoaded
AllTablesBuilt == driveLoaded /\ (variant # "disk" => cntlrLoaded)
AnyExtracted   == controllers # <<>> \/ drives # <<>>
AllExtracted ==
    /\ drives # <<>> /\ drives = GetPhysicalDrivesFromTable(driveTable)
    /\ variant # "disk" =>
          (controllers # <<>>
           /\ controllers = GetControllersFromTable(cntlrTable))
AnyEvaluated   == evaluated # <<>> \/ overall.Outputs # <<>>

\* C12 as stated: every retrieval (controller table, drive table, iLO data)
\* precedes every table, every table precedes every extraction, every
\* extraction precedes every evaluation, and nothing is retrieved, built or
\* extracted once an evaluation or an Add has happened.
C12_StrictPhases ==
    /\ pc \in RetrievalPcs => ~AnyTableBuilt
    /\ pc \in {"loadCntlr", "loadDrive"} => ~AnyExtracted
    /\ pc \in ExtractionPcs => ~AnyEvaluated
    /\ AnyEvaluated => pc \notin (RetrievalPcs \cup ExtractionPcs)

\* C12 (amended): each table is retrieved and built in one call, the
\* controller table before the drive samples are retrieved; both tables are
\* built before any record is extracted, both record lists are extracted
\* before any rule is evaluated, the iLO data is retrieved after the
\* extraction and immediately before the first Add, and no table is
\* retrieved or built and no record extracted after the first evaluation.
C12_PhaseOrder ==
    /\ pc = "loadDrive" => (variant # "disk" => cntlrLoaded)
    /\ pc \in {"loadCntlr", "loadDrive"} => (~AnyExtracted /\ ~AnyEvaluated)
    /\ pc \in ExtractionPcs => (AllTablesBuilt /\ ~AnyEvaluated)
    /\ pc \in EvaluationPcs => (AllTablesBuilt /\ AllExtracted)
    /\ pc = "ilo" => ~AnyEvaluated
    /\ AnyEvaluated =>
          /\ pc \in {"cntlrLoop", "driveLoop", "finish", "exit"}
          /\ AllTablesBuilt /\ AllExtracted

C12_Witness ==
    /\ pc = "driveLoop"
    /\ variant = "ilo" /\ ~ignoreIlo
    /\ Len(drives) = 2 /\ dIdx = 2
    /\ evaluated[1].class = "ilo"
    /\ evaluated[2].class = "cntlr"

====
